---- MODULE Spec2Model ----
(***************************************************************************)
(* aileron: the include_avro! procedural macro (src/lib.rs).               *)
(*                                                                         *)
(* The macro's argument list is a token sequence.  IncludeAvroInput::parse *)
(* reads a leading string literal and a comma separated list of            *)
(* `key = value` pairs into a GeneratorBuilder; include_avro then builds   *)
(* the generator, generates into a byte buffer, decodes the buffer as      *)
(* UTF-8 and parses the text as a token stream.                            *)
(***************************************************************************)
EXTENDS Integers, Sequences, FiniteSets, TLC

VARIABLES
    tokens,     \* the macro invocation's argument tokens (ParseStream contents)
    pos,        \* the ParseStream cursor: index of the next unread token
    pc,         \* position in parse / include_avro
    path,       \* `path` local of parse (line 20)
    builder,    \* `builder` local of parse (line 21)
    result,     \* what parse returned: Ok(IncludeAvroInput) or Err(syn::Error)
    input,      \* `input` of include_avro (line 180), once parse_macro_input bound it
    buffer,     \* `buffer` of include_avro (line 182)
    text,       \* the String decoded from buffer (line 191)
    outcome,    \* how the expansion ended
    stages      \* the stages of include_avro that have run, in order

vars == <<tokens, pos, pc, path, builder, result, input, buffer, text, outcome, stages>>

(***************************************************************************)
(* Option / Result                                                         *)
(***************************************************************************)
None == [set |-> FALSE]
Some(v) == [set |-> TRUE, v |-> v]
Ok(v) == [ok |-> TRUE, v |-> v]
Err(e) == [ok |-> FALSE, err |-> e]

(***************************************************************************)
(* Tokens of the invocation.  A bracketed group is one token tree; its     *)
(* elements are the literal tokens between its commas.                     *)
(***************************************************************************)
Comma == [t |-> "Comma"]
Eq == [t |-> "Eq"]
PathSep == [t |-> "PathSep"]
Minus == [t |-> "Minus"]
FloatLit == [t |-> "Float"]
Str(s) == [t |-> "Str", s |-> s]
Ident(n) == [t |-> "Ident", name |-> n]
BoolLit(b) == [t |-> "Bool", b |-> b]
IntLit(d, sfx) == [t |-> "Int", digits |-> d, suffix |-> sfx]
Bracket(es) == [t |-> "Bracket", elems |-> es]

IsLit(tok) == tok.t \in {"Str", "Bool", "Int", "Float"}

(***************************************************************************)
(* syn::Error: a message (its parts in order) and the token span it is     *)
(* attached to (first and last token index).                               *)
(***************************************************************************)
SynError(msg, from, to) == [msg |-> msg, span |-> <<from, to>>]

\* The error of a failed syn token parse at cursor p (lookahead error).
Expected(toks, p, what) ==
    IF p > Len(toks)
    THEN SynError(<<"unexpected end of input, ", what>>, p, p)
    ELSE SynError(<<what>>, p, p)

(***************************************************************************)
(* syn::Expr, as far as the value parsers tell expressions apart.          *)
(***************************************************************************)
ExprLit(tok, p) == [e |-> "Lit", lit |-> tok, from |-> p, to |-> p]
ExprPath(segs, from, to) == [e |-> "Path", segs |-> segs, from |-> from, to |-> to]
ExprArray(elems, p) == [e |-> "Array", elems |-> elems, from |-> p, to |-> p]
ExprOther(kind, from, to) == [e |-> kind, from |-> from, to |-> to]

\* The elements of an array expression: each element token as an expression.
ArrayElems(es, p) == [i \in 1..Len(es) |-> ExprLit(es[i], p)]

RECURSIVE ParsePathSegs(_, _, _)
\* ident (:: ident)* starting with the identifier at p; segs are those read so far.
ParsePathSegs(toks, p, segs) ==
    IF p + 1 <= Len(toks) /\ toks[p + 1] = PathSep
    THEN IF p + 2 <= Len(toks) /\ toks[p + 2].t = "Ident"
         THEN ParsePathSegs(toks, p + 2, Append(segs, toks[p + 2].name))
         ELSE Err(Expected(toks, p + 2, "expected identifier"))
    ELSE Ok([segs |-> segs, to |-> p])

RECURSIVE ParseUnary(_, _)
\* <Expr as Parse>: a unary expression at p.
ParseUnary(toks, p) ==
    IF p > Len(toks) THEN Err(Expected(toks, p, "expected an expression"))
    ELSE LET tok == toks[p] IN
         CASE tok.t = "Minus" ->
                LET r == ParseUnary(toks, p + 1) IN
                IF r.ok THEN Ok(ExprOther("Unary", p, r.v.to)) ELSE r
           [] IsLit(tok) -> Ok(ExprLit(tok, p))
           [] tok.t = "Bracket" -> Ok(ExprArray(ArrayElems(tok.elems, p), p))
           [] tok.t = "Ident" ->
                LET r == ParsePathSegs(toks, p, <<tok.name>>) IN
                IF r.ok THEN Ok(ExprPath(r.v.segs, p, r.v.to)) ELSE r
           [] OTHER -> Err(Expected(toks, p, "expected an expression"))

RECURSIVE ParseBinary(_, _)
\* lhs (- unary)* : the binary operator the token alphabet has.
ParseBinary(toks, lhs) ==
    IF lhs.to + 1 <= Len(toks) /\ toks[lhs.to + 1] = Minus
    THEN LET r == ParseUnary(toks, lhs.to + 2) IN
         IF r.ok THEN ParseBinary(toks, ExprOther("Binary", lhs.from, r.v.to)) ELSE r
    ELSE Ok(lhs)

RECURSIVE ParseExpr(_, _)
\* input.parse::<Expr>() at cursor p (line 31): the longest expression there;
\* `lhs = rhs` is an assignment expression.
ParseExpr(toks, p) ==
    LET u == ParseUnary(toks, p) IN
    IF ~u.ok THEN u
    ELSE LET b == ParseBinary(toks, u.v) IN
         IF ~b.ok THEN b
         ELSE IF b.v.to + 1 <= Len(toks) /\ toks[b.v.to + 1] = Eq
              THEN LET r == ParseExpr(toks, b.v.to + 2) IN
                   IF r.ok THEN Ok(ExprOther("Assign", b.v.from, r.v.to)) ELSE r
              ELSE b

(***************************************************************************)
(* usize, 64 bits wide on the hosts that build the macro.  A value is its   *)
(* base ten digits without leading zeros, so that the full range is        *)
(* represented; UsizeMax is 2^64 - 1.                                      *)
(***************************************************************************)
UsizeMax == <<1, 8, 4, 4, 6, 7, 4, 4, 0, 7, 3, 7, 0, 9, 5, 5, 1, 6, 1, 5>>

RECURSIVE StripZeros(_)
StripZeros(d) == IF Len(d) > 1 /\ d[1] = 0 THEN StripZeros(Tail(d)) ELSE d

RECURSIVE DigitsLeq(_, _)
\* a <= b for digit sequences of the same length
DigitsLeq(a, b) ==
    IF a = <<>> THEN TRUE
    ELSE IF a[1] # b[1] THEN a[1] < b[1]
    ELSE DigitsLeq(Tail(a), Tail(b))

FitsUsize(d) ==
    Len(d) < Len(UsizeMax) \/ (Len(d) = Len(UsizeMax) /\ DigitsLeq(d, UsizeMax))

\* Mutant: the digits taken without the range check of usize::from_str.
base10_parse_Unchecked(lit, p) == Ok(StripZeros(lit.digits))

\* LitInt::base10_parse::<usize>(): the literal's base ten digits through
\* usize::from_str; the suffix is not looked at.
base10_parse(lit, p) ==
    LET v == StripZeros(lit.digits) IN
    IF FitsUsize(v) THEN Ok(v)
    ELSE Err(SynError(<<"number too large to fit in target type">>, p, p))

(***************************************************************************)
(* The value parsers (lines 50-113)                                        *)
(***************************************************************************)
\* Mutant: any literal is taken for a boolean.
parse_bool_AnyLit(expr) ==
    IF expr.e = "Lit"
    THEN Ok(IF expr.lit.t = "Bool" THEN expr.lit.b ELSE TRUE)
    ELSE Err(SynError(<<"Expected boolean (true/false)">>, expr.from, expr.to))

parse_bool(expr) ==
    IF expr.e = "Lit" /\ expr.lit.t = "Bool"
    THEN Ok(expr.lit.b)
    ELSE Err(SynError(<<"Expected boolean (true/false)">>, expr.from, expr.to))

parse_usize(expr) ==
    IF expr.e = "Lit" /\ expr.lit.t = "Int"
    THEN base10_parse(expr.lit, expr.from)
    ELSE Err(SynError(<<"Expected integer">>, expr.from, expr.to))

RECURSIVE CollectStrs_StopAtOther(_, _)
\* Mutant: the loop ends at the first element that is not a string literal.
CollectStrs_StopAtOther(elems, out) ==
    IF elems = <<>> THEN out
    ELSE LET elem == Head(elems) IN
         IF elem.e = "Lit" /\ elem.lit.t = "Str"
         THEN CollectStrs_StopAtOther(Tail(elems), Append(out, elem.lit.s))
         ELSE out

RECURSIVE CollectStrs(_, _)
\* the for loop of parse_vec: push the value of each string literal element
CollectStrs(elems, out) ==
    IF elems = <<>> THEN out
    ELSE LET elem == Head(elems) IN
         CollectStrs(Tail(elems),
                     IF elem.e = "Lit" /\ elem.lit.t = "Str"
                     THEN Append(out, elem.lit.s) ELSE out)

parse_vec(expr) ==
    IF expr.e = "Array"
    THEN Ok(CollectStrs(expr.elems, <<>>))
    ELSE Err(SynError(<<"Expected array of strings: [\"A\", \"B\"]">>, expr.from, expr.to))

\* Mutant: the first path segment is taken as the variant name.
parse_enum_FirstSegment(expr) ==
    IF expr.e # "Path"
    THEN Err(SynError(<<"Expected Enum variant">>, expr.from, expr.to))
    ELSE LET ident == expr.segs[1] IN
         IF ident \in {"None", "Derive", "CopyBuildSchema"}
         THEN Ok(ident)
         ELSE Err(SynError(<<"Unknown variant for ImplementAvroSchema">>, expr.to, expr.to))

parse_enum(expr) ==
    IF expr.e # "Path"
    THEN Err(SynError(<<"Expected Enum variant">>, expr.from, expr.to))
    ELSE LET ident == expr.segs[Len(expr.segs)] IN
         IF ident \in {"None", "Derive", "CopyBuildSchema"}
         THEN Ok(ident)
         ELSE Err(SynError(<<"Unknown variant for ImplementAvroSchema">>, expr.to, expr.to))

(***************************************************************************)
(* GeneratorBuilder: one optional field per setter; a field no setter was  *)
(* called for keeps the generator's default.                               *)
(***************************************************************************)
BoolKeys == {"use_avro_rs_unions", "use_chrono_dates", "derive_builders"}
Keys == {"precision", "extra_derives", "impl_avro_schema"} \cup BoolKeys

GeneratorDefault == [k \in Keys |-> None]

\* Mutant: a setter that keeps a value already set.
SetField_KeepFirst(b, key, v) == IF b[key].set THEN b ELSE [b EXCEPT ![key] = Some(v)]

\* builder.<key>(v): the setter stores v in its own field.
SetField(b, key, v) == [b EXCEPT ![key] = Some(v)]

\* A setter applied to the outcome r of a value parser (`parse_x(val)?`).
Setter(b, key, r) == IF r.ok THEN Ok(SetField(b, key, r.v)) ELSE r

\* Mutant: an unrecognized key is skipped.
MatchKey_IgnoreUnknown(b, key, keyPos, val) ==
    CASE key = "precision" -> Setter(b, key, parse_usize(val))
      [] key \in BoolKeys -> Setter(b, key, parse_bool(val))
      [] key = "extra_derives" -> Setter(b, key, parse_vec(val))
      [] key = "impl_avro_schema" -> Setter(b, key, parse_enum(val))
      [] OTHER -> Ok(b)

\* match key.to_string().as_str() { ... } (lines 33-43); keyPos is key.span()
MatchKey(b, key, keyPos, val) ==
    CASE key = "precision" -> Setter(b, key, parse_usize(val))
      [] key \in BoolKeys -> Setter(b, key, parse_bool(val))
      [] key = "extra_derives" -> Setter(b, key, parse_vec(val))
      [] key = "impl_avro_schema" -> Setter(b, key, parse_enum(val))
      [] OTHER -> Err(SynError(<<"Unknown flag: ", key>>, keyPos, keyPos))

\* input.peek(Token![,]) (line 23)
PeekComma(toks, p) == p <= Len(toks) /\ toks[p] = Comma

\* Lines 29-43: the key, the `=`, the value and the match, with the key
\* expected at k.  st: "next" (back to the loop head) or "err" (a `?` or the
\* return of line 41); pos is the cursor left behind.
ParseKeyValue(toks, k, b) ==
    IF k > Len(toks) \/ toks[k].t # "Ident"
    THEN [st |-> "err", pos |-> k, builder |-> b,
          err |-> Expected(toks, k, "expected identifier")]
    ELSE IF ~(k + 1 <= Len(toks) /\ toks[k + 1] = Eq)
    THEN [st |-> "err", pos |-> k + 1, builder |-> b,
          err |-> Expected(toks, k + 1, "expected =")]
    ELSE LET val == ParseExpr(toks, k + 2) IN
         IF ~val.ok
         THEN [st |-> "err", pos |-> k + 2, builder |-> b, err |-> val.err]
         ELSE LET m == MatchKey(b, toks[k].name, k, val.v) IN
              IF m.ok
              THEN [st |-> "next", pos |-> val.v.to + 1, builder |-> m.v]
              ELSE [st |-> "err", pos |-> val.v.to + 1, builder |-> b, err |-> m.err]

\* Mutant: the loop without its `if input.is_empty() { break; }`.
LoopBody_NoBreak(toks, p, b) == ParseKeyValue(toks, p + 1, b)

\* One iteration of the while loop (lines 24-43), entered with a comma at p:
\* the comma is read, and the loop is left ("break", line 26) when nothing
\* follows it.
LoopBody(toks, p, b) ==
    IF p + 1 > Len(toks)
    THEN [st |-> "break", pos |-> p + 1, builder |-> b]
    ELSE ParseKeyValue(toks, p + 1, b)

\* Ok(Self { path, builder }) (line 46)
IncludeAvroInput(p, b) == [path |-> p, builder |-> b]

RECURSIVE WhileLoop(_, _, _, _)
\* The while loop of parse run to its end (lines 23-46), from cursor p.
WhileLoop(toks, pth, p, b) ==
    IF PeekComma(toks, p)
    THEN LET r == LoopBody(toks, p, b) IN
         CASE r.st = "next" -> WhileLoop(toks, pth, r.pos, r.builder)
           [] r.st = "break" -> [res |-> Ok(IncludeAvroInput(pth, r.builder)), pos |-> r.pos]
           [] r.st = "err" -> [res |-> Err(r.err), pos |-> r.pos]
    ELSE [res |-> Ok(IncludeAvroInput(pth, b)), pos |-> p]

\* IncludeAvroInput::parse as a function of the tokens (lines 19-47): what it
\* returns and where it leaves the cursor.
IncludeAvroInput_parse(toks) ==
    IF Len(toks) >= 1 /\ toks[1].t = "Str"
    THEN WhileLoop(toks, toks[1].s, 2, GeneratorDefault)
    ELSE [res |-> Err(Expected(toks, 1, "expected string literal")), pos |-> 1]

\* parse_macro_input!(tokens as IncludeAvroInput) as a function (line 180).
parse_macro_input(toks) ==
    LET r == IncludeAvroInput_parse(toks) IN
    IF r.res.ok /\ r.pos <= Len(toks)
    THEN Err(SynError(<<"unexpected token">>, r.pos, r.pos))
    ELSE r.res

(***************************************************************************)
(* String::from_utf8 and TokenStream::from_str (lines 191-194)             *)
(***************************************************************************)
IsCont(b) == 128 <= b /\ b <= 191

RECURSIVE Utf8Decode(_, _)
\* The code points of a byte sequence, or an error at the first ill-formed
\* sequence; out are the code points decoded so far.
Utf8Decode(bytes, out) ==
    IF bytes = <<>> THEN Ok(out)
    ELSE LET b1 == bytes[1]
             n == Len(bytes)
         IN
         IF b1 < 128 THEN Utf8Decode(Tail(bytes), Append(out, b1))
         ELSE IF 194 <= b1 /\ b1 <= 223
         THEN IF n >= 2 /\ IsCont(bytes[2])
              THEN Utf8Decode(SubSeq(bytes, 3, n),
                              Append(out, (b1 - 192) * 64 + (bytes[2] - 128)))
              ELSE Err("invalid utf-8")
         ELSE IF 224 <= b1 /\ b1 <= 239
         THEN IF /\ n >= 3 /\ IsCont(bytes[2]) /\ IsCont(bytes[3])
                 /\ (b1 = 224 => bytes[2] >= 160)
                 /\ (b1 = 237 => bytes[2] <= 159)
              THEN Utf8Decode(SubSeq(bytes, 4, n),
                              Append(out, (b1 - 224) * 4096 + (bytes[2] - 128) * 64
                                          + (bytes[3] - 128)))
              ELSE Err("invalid utf-8")
         ELSE IF 240 <= b1 /\ b1 <= 244
         THEN IF /\ n >= 4 /\ IsCont(bytes[2]) /\ IsCont(bytes[3]) /\ IsCont(bytes[4])
                 /\ (b1 = 240 => bytes[2] >= 144)
                 /\ (b1 = 244 => bytes[2] <= 143)
              THEN Utf8Decode(SubSeq(bytes, 5, n),
                              Append(out, (b1 - 240) * 262144 + (bytes[2] - 128) * 4096
                                          + (bytes[3] - 128) * 64 + (bytes[4] - 128)))
              ELSE Err("invalid utf-8")
         ELSE Err("invalid utf-8")

\* String::from_utf8(buffer)
from_utf8(bytes) == Utf8Decode(bytes, <<>>)

RECURSIVE Balanced(_, _)
\* Delimiters of the text nest properly; depth is the number of open ones.
Balanced(chars, depth) ==
    IF chars = <<>> THEN depth = 0
    ELSE IF chars[1] = 40 THEN Balanced(Tail(chars), depth + 1)
    ELSE IF chars[1] = 41 THEN depth > 0 /\ Balanced(Tail(chars), depth - 1)
    ELSE Balanced(Tail(chars), depth)

\* str::parse::<TokenStream>(): lexing fails on an unbalanced delimiter.
ParseTokenStream(chars) == IF Balanced(chars, 0) THEN Ok(chars) ELSE Err("lex error")

(***************************************************************************)
(* How an expansion ends                                                   *)
(***************************************************************************)
CompileError(e) == [kind |-> "compile_error", err |-> e]
Panic(msg) == [kind |-> "panic", msg |-> msg]
Expanded(code) == [kind |-> "code", code |-> code]

(***************************************************************************)
(* Bounds and the invocations explored                                     *)
(***************************************************************************)
MaxPairs == 2    \* token groups after the path, option parser alone
MaxOpts == 1     \* token groups after the path, whole macro
MaxElems == 2    \* elements of an array value
MaxSegs == 2     \* segments of a path value
MaxBuf == 2      \* bytes the generator writes

SeqsUpTo(S, n) == UNION {[1..k -> S] : k \in 0..n}

RECURSIVE Flatten(_)
Flatten(ss) == IF ss = <<>> THEN <<>> ELSE Head(ss) \o Flatten(Tail(ss))

Lit4 == IntLit(<<4>>, "")
Lit7 == IntLit(<<7>>, "")
UsizeMaxPlus1 == <<1, 8, 4, 4, 6, 7, 4, 4, 0, 7, 3, 7, 0, 9, 5, 5, 1, 6, 1, 6>>
TenPow20 == <<1, 0, 0, 0, 0, 0, 0, 0, 0, 0, 0, 0, 0, 0, 0, 0, 0, 0, 0, 0, 0>>

Heads == {<<>>, <<Str("")>>, <<Str("schemas/*.avsc")>>}

Pair(key, val) == <<Comma, Ident(key), Eq>> \o val

\* Token groups: well formed pairs with a right or a wrong value, an unknown
\* key, and the malformed shapes (no comma, no key, no `=`, no value, a lone
\* comma).
Groups ==
    {Pair("precision", <<v>>) : v \in {Lit4, Lit7, BoolLit(TRUE)}}
    \cup {Pair(k, <<v>>) : k \in BoolKeys, v \in {BoolLit(TRUE), BoolLit(FALSE), Lit4}}
    \cup {Pair("extra_derives", <<v>>) : v \in {Bracket(<<Str("A")>>), BoolLit(TRUE)}}
    \cup {Pair("impl_avro_schema", <<Ident(v)>>) : v \in {"Derive", "Bogus"}}
    \cup {Pair("foo", <<BoolLit(TRUE)>>)}
    \cup {<<Ident("precision"), Eq, Lit4>>,
          <<Comma, Eq, BoolLit(TRUE)>>,
          <<Comma, Ident("use_chrono_dates"), BoolLit(TRUE)>>,
          <<Comma, Ident("derive_builders"), Eq>>,
          <<Comma>>}

ParseInputs == {h \o Flatten(gs) : h \in Heads, gs \in SeqsUpTo(Groups, MaxPairs)}

\* The groups the whole-macro specification draws from.
MacroGroups ==
    {Pair("precision", <<Lit4>>), Pair("use_chrono_dates", <<BoolLit(TRUE)>>),
     Pair("impl_avro_schema", <<Ident("Derive")>>), Pair("derive_builders", <<Lit4>>),
     Pair("foo", <<BoolLit(TRUE)>>), <<Comma>>, <<Ident("precision"), Eq, Lit4>>}

MacroInputs == {h \o Flatten(gs) : h \in Heads, gs \in SeqsUpTo(MacroGroups, MaxOpts)}

\* Values of a single pair, for the value parsers.
IntDigits == {<<0>>, <<4>>, <<0, 4>>, <<1, 0>>, UsizeMax, UsizeMaxPlus1, TenPow20}
ElemToks == {Str("A"), Str("B"), IntLit(<<5>>, "")}
SegNames == {"None", "Derive", "CopyBuildSchema", "Bogus", "derive"}

RECURSIVE PathToks(_)
PathToks(segs) ==
    IF Len(segs) = 1 THEN <<Ident(segs[1])>>
    ELSE <<Ident(Head(segs)), PathSep>> \o PathToks(Tail(segs))

Values ==
    {<<BoolLit(b)>> : b \in BOOLEAN}
    \cup {<<IntLit(d, "")>> : d \in IntDigits}
    \cup {<<IntLit(<<4>>, "u8")>>, <<Minus, Lit4>>, <<FloatLit>>, <<Str("A")>>,
          <<BoolLit(TRUE), Eq, BoolLit(FALSE)>>, <<Lit4, Minus, Lit4>>}
    \cup {<<Bracket(es)>> : es \in SeqsUpTo(ElemToks, MaxElems)}
    \cup {PathToks(segs) : segs \in SeqsUpTo(SegNames, MaxSegs) \ {<<>>}}

ValueInputs ==
    {<<Str("schemas/*.avsc")>> \o Pair(k, v) : k \in Keys \cup {"foo"}, v \in Values}

Bytes == {97, 40, 41, 195, 169}
Buffers == SeqsUpTo(Bytes, MaxBuf)

\* What Generator::generate can do: fail, or write some bytes to the buffer.
GenerateResults == {Err("generate")} \cup {Ok(b) : b \in Buffers}

(***************************************************************************)
(* The state machine                                                       *)
(***************************************************************************)
InitWith(inputs) ==
    /\ tokens \in inputs
    /\ pos = 1
    /\ pc = "parse"
    /\ path = None
    /\ builder = None
    /\ result = None
    /\ input = None
    /\ buffer = <<>>
    /\ text = None
    /\ outcome = None
    /\ stages = <<>>

Init == InitWith(MacroInputs)
InitParse == InitWith(ParseInputs)
InitVal == InitWith(ValueInputs)

\* Lines 20-21: the leading string literal, then the default builder.
ParseLitStr ==
    /\ pc = "parse"
    /\ stages' = Append(stages, "parse")
    /\ IF Len(tokens) >= 1 /\ tokens[1].t = "Str"
       THEN /\ path' = Some(tokens[1].s)
            /\ builder' = GeneratorDefault
            /\ pos' = 2
            /\ pc' = "loop"
            /\ result' = result
       ELSE /\ result' = Some(Err(Expected(tokens, 1, "expected string literal")))
            /\ pc' = "parsed"
            /\ UNCHANGED <<path, builder, pos>>
    /\ UNCHANGED <<tokens, input, buffer, text, outcome>>

\* Mutant: an error of a pair is dropped and the loop goes on.
ParsePair_Continue ==
    /\ pc = "loop"
    /\ PeekComma(tokens, pos)
    /\ LET r == LoopBody(tokens, pos, builder) IN
       /\ pos' = r.pos
       /\ builder' = r.builder
       /\ pc' = IF r.st = "break" THEN "parsed" ELSE "loop"
       /\ result' = IF r.st = "break"
                    THEN Some(Ok(IncludeAvroInput(path.v, r.builder)))
                    ELSE result
    /\ UNCHANGED <<tokens, path, input, buffer, text, outcome, stages>>

\* Lines 23-44: one iteration of the while loop.
ParsePair ==
    /\ pc = "loop"
    /\ PeekComma(tokens, pos)
    /\ LET r == LoopBody(tokens, pos, builder) IN
       /\ pos' = r.pos
       /\ builder' = r.builder
       /\ pc' = IF r.st = "next" THEN "loop" ELSE "parsed"
       /\ result' = CASE r.st = "next" -> result
                      [] r.st = "break" -> Some(Ok(IncludeAvroInput(path.v, r.builder)))
                      [] r.st = "err" -> Some(Err(r.err))
    /\ UNCHANGED <<tokens, path, input, buffer, text, outcome, stages>>

\* Lines 23 and 46: no comma follows, parse returns Ok(Self { path, builder }).
ParseReturn ==
    /\ pc = "loop"
    /\ ~PeekComma(tokens, pos)
    /\ result' = Some(Ok(IncludeAvroInput(path.v, builder)))
    /\ pc' = "parsed"
    /\ UNCHANGED <<tokens, pos, path, builder, input, buffer, text, outcome, stages>>

\* Line 180: parse_macro_input!.  An Err becomes the expansion (a compile
\* error); syn also rejects tokens left unread after an Ok.
ParseMacroInput ==
    /\ pc = "parsed"
    /\ IF ~result.v.ok
       THEN /\ outcome' = Some(CompileError(result.v.err))
            /\ pc' = "done"
            /\ input' = input
       ELSE IF pos <= Len(tokens)
       THEN /\ outcome' = Some(CompileError(SynError(<<"unexpected token">>, pos, pos)))
            /\ pc' = "done"
            /\ input' = input
       ELSE /\ input' = Some(result.v.v)
            /\ pc' = "build"
            /\ outcome' = outcome
    /\ UNCHANGED <<tokens, pos, path, builder, result, buffer, text, stages>>

\* Mutant: a failed build is reported and the generator is invoked anyway.
Build_NoAbort ==
    /\ pc = "build"
    /\ stages' = Append(stages, "build")
    /\ pc' = "generate"
    /\ \E ok \in BOOLEAN :
          outcome' = IF ok THEN outcome
                     ELSE Some(Panic("Could not initialize avro generator"))
    /\ UNCHANGED <<tokens, pos, path, builder, result, input, buffer, text>>

\* Lines 184-187: input.builder.build().expect(..)
Build ==
    /\ pc = "build"
    /\ stages' = Append(stages, "build")
    /\ \E ok \in BOOLEAN :
          IF ok
          THEN pc' = "generate" /\ outcome' = outcome
          ELSE pc' = "done" /\ outcome' = Some(Panic("Could not initialize avro generator"))
    /\ UNCHANGED <<tokens, pos, path, builder, result, input, buffer, text>>

\* Lines 188-189: .generate(&source, &mut buffer).expect(..)
Generate ==
    /\ pc = "generate"
    /\ stages' = Append(stages, "generate")
    /\ \E r \in GenerateResults :
          IF r.ok
          THEN buffer' = r.v /\ pc' = "from_utf8" /\ outcome' = outcome
          ELSE /\ buffer' = buffer
               /\ pc' = "done"
               /\ outcome' = Some(Panic("Could not generate type definitions"))
    /\ UNCHANGED <<tokens, pos, path, builder, result, input, text>>

\* Lines 191-192: String::from_utf8(buffer).expect(..)
FromUtf8 ==
    /\ pc = "from_utf8"
    /\ stages' = Append(stages, "from_utf8")
    /\ LET r == from_utf8(buffer) IN
          IF r.ok
          THEN text' = Some(r.v) /\ pc' = "parse_code" /\ outcome' = outcome
          ELSE /\ text' = text
               /\ pc' = "done"
               /\ outcome' = Some(Panic("Buffer is not a valid UTF-8 String"))
    /\ UNCHANGED <<tokens, pos, path, builder, result, input, buffer>>

\* Lines 193-194: .parse().expect(..); the token stream is the expansion.
ParseGenerated ==
    /\ pc = "parse_code"
    /\ stages' = Append(stages, "parse_code")
    /\ LET r == ParseTokenStream(text.v) IN
          outcome' = IF r.ok THEN Some(Expanded(r.v))
                     ELSE Some(Panic("Could not parse the generated string into code"))
    /\ pc' = "done"
    /\ UNCHANGED <<tokens, pos, path, builder, result, input, buffer, text>>

NextParse == ParseLitStr \/ ParsePair \/ ParseReturn \/ ParseMacroInput

Next == NextParse \/ Build \/ Generate \/ FromUtf8 \/ ParseGenerated

\* include_avro! on a small set of invocations, every stage
Spec == Init /\ [][Next]_vars
\* the option parser alone, on sequences of token groups
SpecParse == InitParse /\ [][NextParse]_vars
\* the option parser alone, on one pair with every kind of value
SpecVal == InitVal /\ [][NextParse]_vars

(***************************************************************************)
(* Vocabulary of the properties                                            *)
(***************************************************************************)
\* parse_macro_input! has run: the invocation is accepted (input bound) or
\* rejected (a compile error is the expansion).
Settled == pc \notin {"parse", "loop", "parsed"}
Accepted == input.set
Rejected == ~input.set /\ outcome.set /\ outcome.v.kind = "compile_error"
RejectedWith(e) == ~input.set /\ outcome = Some(CompileError(e))

\* The error message contains the name.
Names(err, name) == \E i \in DOMAIN err.msg : err.msg[i] = name

\* The invocation is a path and the single pair `key = Val`.
Val == SubSeq(tokens, 5, Len(tokens))
OnePair(key) ==
    /\ Len(tokens) >= 5
    /\ tokens[1].t = "Str" /\ tokens[2] = Comma /\ tokens[3] = Ident(key) /\ tokens[4] = Eq
    /\ \A i \in 5..Len(tokens) : tokens[i] # Comma

\* The record with the given path and only the field `key` set, to v.
OnlySet(key, v) == IncludeAvroInput(tokens[1].s, [GeneratorDefault EXCEPT ![key] = Some(v)])

IsPathToks(v) ==
    /\ Len(v) % 2 = 1
    /\ \A i \in 1..Len(v) : IF i % 2 = 1 THEN v[i].t = "Ident" ELSE v[i] = PathSep

Variants == {"None", "Derive", "CopyBuildSchema"}

(***************************************************************************)
(* C2                                                                      *)
(***************************************************************************)
\* C2 as stated: for each boolean key, the literal true/false yields a record
\* with exactly that field set to that value, and any other value fails with
\* an error that names the key.
C2_Original ==
    \A k \in BoolKeys :
        (Settled /\ OnePair(k)) =>
            IF Val \in {<<BoolLit(TRUE)>>, <<BoolLit(FALSE)>>}
            THEN input = Some(OnlySet(k, Val[1].b))
            ELSE Rejected /\ Names(outcome.v.err, k)

\* C2 amended: for each boolean key, the literal true/false yields a record
\* with exactly that field set to that value; any other value is rejected with
\* the fixed message "Expected boolean (true/false)" attached to the span of
\* the value expression (the message does not contain the key).
C2_BoolKeys ==
    \A k \in BoolKeys :
        (Settled /\ OnePair(k)) =>
            IF Val \in {<<BoolLit(TRUE)>>, <<BoolLit(FALSE)>>}
            THEN input = Some(OnlySet(k, Val[1].b))
            ELSE /\ RejectedWith(SynError(<<"Expected boolean (true/false)">>, 5, Len(tokens)))
                 /\ ~Names(outcome.v.err, k)

\* A non-boolean value for a boolean key has been rejected.
C2_Witness ==
    Settled /\ OnePair("use_chrono_dates") /\ Val = <<Str("A")>> /\ Rejected

(***************************************************************************)
(* C3                                                                      *)
(***************************************************************************)
\* C3 as stated: a path ending in None, Derive or CopyBuildSchema parses to
\* that variant whatever its leading segments; a path ending in any other
\* identifier fails with an error naming that identifier; a non-path fails.
C3_Original ==
    (Settled /\ OnePair("impl_avro_schema")) =>
        IF IsPathToks(Val)
        THEN IF Val[Len(Val)].name \in Variants
             THEN input = Some(OnlySet("impl_avro_schema", Val[Len(Val)].name))
             ELSE Rejected /\ Names(outcome.v.err, Val[Len(Val)].name)
        ELSE Rejected

\* C3 amended: as stated, except that a path ending in any other identifier
\* is rejected with the fixed message "Unknown variant for ImplementAvroSchema"
\* attached to the span of that identifier (the message does not contain it);
\* a non-path is rejected with "Expected Enum variant".
C3_ImplAvroSchema ==
    (Settled /\ OnePair("impl_avro_schema")) =>
        IF IsPathToks(Val)
        THEN IF Val[Len(Val)].name \in Variants
             THEN input = Some(OnlySet("impl_avro_schema", Val[Len(Val)].name))
             ELSE /\ RejectedWith(SynError(<<"Unknown variant for ImplementAvroSchema">>,
                                           Len(tokens), Len(tokens)))
                  /\ ~Names(outcome.v.err, Val[Len(Val)].name)
        ELSE RejectedWith(SynError(<<"Expected Enum variant">>, 5, Len(tokens)))

\* A qualified path ending in a variant name has been accepted.
C3_Witness ==
    /\ Settled /\ OnePair("impl_avro_schema")
    /\ Val = <<Ident("Bogus"), PathSep, Ident("CopyBuildSchema")>>
    /\ Accepted

(***************************************************************************)
(* C4                                                                      *)
(***************************************************************************)
StrElems(es) == SelectSeq(es, LAMBDA tok : tok.t = "Str")
StrValues(es) == [i \in 1..Len(StrElems(es)) |-> StrElems(es)[i].s]

\* C4: for extra_derives, an array parses to its string literal elements in
\* their order, the other elements dropped (none left is the empty sequence,
\* no error); a value that is not an array is rejected with a type error.
C4_ExtraDerives ==
    (Settled /\ OnePair("extra_derives")) =>
        IF Len(Val) = 1 /\ Val[1].t = "Bracket"
        THEN input = Some(OnlySet("extra_derives", StrValues(Val[1].elems)))
        ELSE RejectedWith(SynError(<<"Expected array of strings: [\"A\", \"B\"]">>,
                                   5, Len(tokens)))

\* An array with a string after a non-string element has been accepted.
C4_Witness ==
    /\ Settled /\ OnePair("extra_derives")
    /\ Val = <<Bracket(<<IntLit(<<5>>, ""), Str("B")>>)>>
    /\ Accepted

(***************************************************************************)
(* C5                                                                      *)
(***************************************************************************)
IsIntLit(v) == Len(v) = 1 /\ v[1].t = "Int"

\* C5 as stated: for precision, a non-negative integer literal n sets the
\* precision to exactly n; a negative literal or a non-integer value fails.
C5_Original ==
    (Settled /\ OnePair("precision")) =>
        IF IsIntLit(Val)
        THEN input = Some(OnlySet("precision", StripZeros(Val[1].digits)))
        ELSE Rejected

\* C5 amended: for precision, a non-negative integer literal n that fits
\* usize sets the precision to exactly n; a literal above usize::MAX, a
\* negative literal or a non-integer value is rejected and no record is made.
C5_Precision ==
    (Settled /\ OnePair("precision")) =>
        IF IsIntLit(Val) /\ FitsUsize(StripZeros(Val[1].digits))
        THEN input = Some(OnlySet("precision", StripZeros(Val[1].digits)))
        ELSE Rejected

\* The largest usize has been accepted as the precision.
C5_Witness ==
    /\ Settled /\ OnePair("precision")
    /\ Val = <<IntLit(UsizeMax, "")>>
    /\ Accepted

(***************************************************************************)
(* The invocation read as comma separated token groups: group 0 is what    *)
(* precedes the first comma, group i what follows the comma at index i.    *)
(***************************************************************************)
Min(S) == CHOOSE x \in S : \A y \in S : x <= y
Max(S) == CHOOSE x \in S : \A y \in S : x >= y

CommaIdx == {i \in 1..Len(tokens) : tokens[i] = Comma}
GroupStarts == {0} \cup CommaIdx
GroupEnd(i) ==
    LET later == {j \in CommaIdx : j > i} IN
    IF later = {} THEN Len(tokens) ELSE Min(later) - 1
GroupToks(i) == SubSeq(tokens, i + 1, GroupEnd(i))

\* v is a value of the shape the key takes.
ValidValue(key, v) ==
    CASE key \in BoolKeys -> v \in {<<BoolLit(TRUE)>>, <<BoolLit(FALSE)>>}
      [] key = "precision" -> IsIntLit(v) /\ FitsUsize(StripZeros(v[1].digits))
      [] key = "extra_derives" -> Len(v) = 1 /\ v[1].t = "Bracket"
      [] key = "impl_avro_schema" -> IsPathToks(v) /\ v[Len(v)].name \in Variants
      [] OTHER -> FALSE

HasKey(g) == Len(g) >= 1 /\ g[1].t = "Ident"
IsPair(g) == Len(g) >= 3 /\ HasKey(g) /\ g[2] = Eq
ValidPair(g) == IsPair(g) /\ ValidValue(g[1].name, SubSeq(g, 3, Len(g)))

\* Group 0 is exactly the path literal; a later group is a valid pair, or is
\* empty after a trailing comma.
ValidGroup(i) ==
    IF i = 0 THEN Len(GroupToks(0)) = 1 /\ tokens[1].t = "Str"
    ELSE ValidPair(GroupToks(i)) \/ (GroupToks(i) = <<>> /\ i = Len(tokens))

\* The value a valid boolean or integer pair carries.
PairValue(g) == IF g[3].t = "Bool" THEN g[3].b ELSE StripZeros(g[3].digits)

\* The pairs with the key among the groups before index limit.
PairsOf(key, limit) ==
    {i \in CommaIdx : i < limit /\ HasKey(GroupToks(i)) /\ GroupToks(i)[1].name = key}

\* The value of the last of them, if any.
LastOf(key, limit) ==
    IF PairsOf(key, limit) = {} THEN None
    ELSE Some(PairValue(GroupToks(Max(PairsOf(key, limit)))))

ScalarKeys == BoolKeys \cup {"precision"}

(***************************************************************************)
(* C1                                                                      *)
(***************************************************************************)
\* Group i is a pair whose key is not recognized and every earlier group is
\* valid.
UnknownKeyAt(i) ==
    /\ i \in CommaIdx
    /\ \A j \in GroupStarts : j < i => ValidGroup(j)
    /\ i + 2 <= Len(tokens)
    /\ tokens[i + 1].t = "Ident" /\ tokens[i + 1].name \notin Keys
    /\ tokens[i + 2] = Eq
    /\ ParseExpr(tokens, i + 3).ok

\* C1: when a `key = value` pair has a key outside the six recognized names
\* and all earlier pairs are valid, parse fails with "Unknown flag: <key>" at
\* the key, and no configuration record is produced.
C1_UnknownFlag ==
    \A i \in CommaIdx :
        (Settled /\ UnknownKeyAt(i)) =>
            /\ result = Some(Err(SynError(<<"Unknown flag: ", tokens[i + 1].name>>, i + 1, i + 1)))
            /\ RejectedWith(result.v.err)
            /\ Names(outcome.v.err, tokens[i + 1].name)

\* An unknown key after a valid pair has been rejected.
C1_Witness ==
    \E i \in CommaIdx : Settled /\ UnknownKeyAt(i) /\ i > 2 /\ Rejected

(***************************************************************************)
(* C6                                                                      *)
(***************************************************************************)
AllValid == \A i \in GroupStarts : ValidGroup(i)

\* C6: duplicate keys are not rejected and the last one wins: when all pairs
\* are valid, in any order and with any repetition, parsing succeeds, each
\* boolean/integer field is the value of the last pair with its key, and a
\* field whose key never occurs is unset.
C6_LastWriteWins ==
    (Settled /\ AllValid) =>
        /\ Accepted
        /\ input.v.path = tokens[1].s
        /\ \A k \in ScalarKeys : input.v.builder[k] = LastOf(k, Len(tokens) + 1)
        /\ \A k \in Keys : PairsOf(k, Len(tokens) + 1) = {} => input.v.builder[k] = None

\* A key given twice with different values, a different key in between or
\* beside it, has been accepted.
C6_Witness ==
    /\ Settled /\ AllValid /\ Accepted
    /\ \E k \in ScalarKeys :
          \E i, j \in PairsOf(k, Len(tokens) + 1) :
              i < j /\ PairValue(GroupToks(i)) # PairValue(GroupToks(j))

(***************************************************************************)
(* C7                                                                      *)
(***************************************************************************)
\* C7: in every record parse returns successfully the source locator is
\* present and non-empty, and an invocation without a leading string literal
\* is rejected.
C7_NonEmptyPath ==
    (result.set /\ result.v.ok) =>
        /\ Len(tokens) >= 1 /\ tokens[1].t = "Str"
        /\ result.v.v.path # ""

(***************************************************************************)
(* C8                                                                      *)
(***************************************************************************)
EndsWithComma == Len(tokens) >= 1 /\ tokens[Len(tokens)] = Comma
TwoCommas == \E i \in CommaIdx : i + 1 \in CommaIdx
PathOnly == /\ Len(tokens) >= 1 /\ tokens[1].t = "Str"
            /\ tokens \in {<<tokens[1]>>, <<tokens[1], Comma>>}

\* The run's verdict is that of the parser as a function of the tokens.
AgreesWithFunction ==
    /\ Accepted <=> parse_macro_input(tokens).ok
    /\ Accepted => input.v = parse_macro_input(tokens).v

\* C8 as stated: a path with no pairs, with or without a trailing comma,
\* yields the record with that path and every option unset; appending one
\* comma to any accepted invocation yields the same record; two consecutive
\* commas are rejected.
C8_Original ==
    Settled =>
        /\ PathOnly => input = Some(IncludeAvroInput(tokens[1].s, GeneratorDefault))
        /\ Accepted => parse_macro_input(Append(tokens, Comma)) = Ok(input.v)
        /\ TwoCommas => Rejected

\* C8 amended: as stated, for the accepted invocations that do not already
\* end with a comma.
C8_TrailingComma ==
    Settled =>
        /\ AgreesWithFunction
        /\ PathOnly => input = Some(IncludeAvroInput(tokens[1].s, GeneratorDefault))
        /\ (Accepted /\ ~EndsWithComma) =>
               parse_macro_input(Append(tokens, Comma)) = Ok(input.v)
        /\ TwoCommas => Rejected

\* An invocation ending with a comma after a pair has been accepted.
C8_Witness ==
    /\ Settled /\ Accepted /\ EndsWithComma /\ Len(tokens) > 2
    /\ parse_macro_input(SubSeq(tokens, 1, Len(tokens) - 1)) = Ok(input.v)

(***************************************************************************)
(* C9                                                                      *)
(***************************************************************************)
Order == <<"parse", "build", "generate", "from_utf8", "parse_code">>
IsPrefix(a, b) == Len(a) <= Len(b) /\ a = SubSeq(b, 1, Len(a))

\* The stage each panic message belongs to (its index in Order).
PanicStage(msg) ==
    CASE msg = "Could not initialize avro generator" -> 2
      [] msg = "Could not generate type definitions" -> 3
      [] msg = "Buffer is not a valid UTF-8 String" -> 4
      [] msg = "Could not parse the generated string into code" -> 5

\* C9: the stages run in the order option-parse, build, generate, UTF-8
\* decode, source parse, each at most once; the generator is never built
\* when option parsing failed; the first failing stage ends the expansion
\* with its own message and no later stage runs; generated code is the
\* expansion only when all five stages succeeded.
C9_Pipeline ==
    /\ IsPrefix(stages, Order)
    /\ (pc = "done") <=> outcome.set
    /\ Len(stages) >= 2 => (input.set /\ parse_macro_input(tokens) = Ok(input.v))
    /\ pc = "done" => ~ENABLED Next
    /\ outcome.set =>
          CASE outcome.v.kind = "compile_error" ->
                 stages = <<"parse">> /\ ~input.set /\ ~parse_macro_input(tokens).ok
            [] outcome.v.kind = "panic" ->
                 stages = SubSeq(Order, 1, PanicStage(outcome.v.msg))
            [] outcome.v.kind = "code" ->
                 /\ stages = Order
                 /\ from_utf8(buffer) = Ok(text.v)
                 /\ ParseTokenStream(text.v) = Ok(outcome.v.code)

\* An invocation with an option has expanded to non-empty generated code.
C9_Witness ==
    /\ outcome.set /\ outcome.v.kind = "code" /\ outcome.v.code # <<>>
    /\ Len(tokens) > 2

(***************************************************************************)
(* C10                                                                     *)
(***************************************************************************)
BadGroups == {i \in GroupStarts : ~ValidGroup(i)}

\* A malformed group may begin with a valid pair that only lacks the comma
\* after it (`k = v k2 = v2`): the index of that pair's last token, else 0.
LeadEnd(s) ==
    IF s > 0 /\ IsPair(GroupToks(s)) /\ ParseExpr(tokens, s + 3).ok
    THEN LET e == ParseExpr(tokens, s + 3).v.to IN
         IF e < GroupEnd(s) /\ ValidPair(SubSeq(tokens, s + 1, e)) THEN e ELSE 0
    ELSE 0

\* What the builder holds for the key when parsing stops in group s.
HeldValue(key, s) ==
    IF LeadEnd(s) > 0 /\ tokens[s + 1].name = key
    THEN Some(PairValue(SubSeq(tokens, s + 1, LeadEnd(s))))
    ELSE LastOf(key, s)

\* No pair with the key was read before parsing stopped in group s.
NeverSet(key, s) ==
    PairsOf(key, s) = {} /\ ~(LeadEnd(s) > 0 /\ tokens[s + 1].name = key)

\* C10: the parser fails fast.  With s the first malformed token group, the
\* invocation is rejected with one error, located in that group (or at the
\* token that ends it; at the very token after a pair that lacks its comma),
\* the cursor has not moved past the group, and the builder holds the pairs
\* before the failure and nothing of what follows; no record is made.  An
\* invocation without a malformed group is accepted.
C10_FailFast ==
    Settled =>
        IF BadGroups = {} THEN Accepted
        ELSE LET s == Min(BadGroups) IN
             /\ Rejected
             /\ outcome.v.err.span[1] \in (IF s = 0 THEN 1 ELSE s)..(GroupEnd(s) + 1)
             /\ pos <= GroupEnd(s) + 1
             /\ LeadEnd(s) > 0 =>
                    /\ pos = LeadEnd(s) + 1
                    /\ outcome.v.err = SynError(<<"unexpected token">>, pos, pos)
             /\ IF Len(tokens) >= 1 /\ tokens[1].t = "Str"
                THEN /\ \A k \in ScalarKeys : builder[k] = HeldValue(k, s)
                     /\ \A k \in Keys : NeverSet(k, s) => builder[k] = None
                ELSE builder = None

\* A malformed group with a valid pair after it has been rejected.
C10_Witness ==
    /\ Settled /\ Rejected /\ BadGroups # {}
    /\ \E j \in CommaIdx : Min(BadGroups) < j /\ ValidPair(GroupToks(j))

====
